---- MODULE Spec2Model ----
(***************************************************************************)
(* A model of fdmcalc (src/main.py): the FDM printing cost calculator.     *)
(*                                                                         *)
(* Numbers are binary floating-point values with a Precision-bit mantissa  *)
(* and round-to-nearest-even, as Python's float is (binary64 has 53 bits;  *)
(* the model keeps the rounding and shortens the mantissa).  The exponent  *)
(* is unbounded: the inputs of the model are finite and stay far from      *)
(* overflow and underflow.                                                 *)
(***************************************************************************)
EXTENDS Integers, Sequences, FiniteSets, TLC

\* Mantissa bits of the modelled float format.
Precision == 13

\* Calls of calculate() recorded per calculator.
MaxCalls == 2

(***************************************************************************)
(* Floating point.  A value is [m, e], meaning m * 2^e, with m = 0, e = 0  *)
(* or 2^(Precision-1) <= |m| < 2^Precision, so that equal values are equal *)
(* records.                                                                *)
(***************************************************************************)
Abs(n) == IF n < 0 THEN -n ELSE n

Sign(n) == IF n < 0 THEN -1 ELSE 1

\* The number of bits of n > 0 (n < 2^31).
BitLen(n) == CHOOSE k \in 1..31 : n \div 2^(k - 1) = 1

Zero == [m |-> 0, e |-> 0]

\* q * 2^e, q having at most Precision + 1 bits after a carry out of rounding.
Carry(q, e) ==
    IF q = 2^Precision THEN [m |-> 2^(Precision - 1), e |-> e + 1]
    ELSE [m |-> q, e |-> e]

\* Ties to even: q with a remainder r out of 2 * half cut off below it.
Nearest(q, r, half, sticky) ==
    IF r > half \/ (r = half /\ (sticky \/ q % 2 = 1)) THEN q + 1 ELSE q

\* mag of n bits cut to Precision bits.
Cut(mag, sh, e, sticky) ==
    Carry(Nearest(mag \div 2^sh, mag % 2^sh, 2^(sh - 1), sticky), e + sh)

RoundBits(mag, n, e, sticky) ==
    IF n <= Precision
    THEN [m |-> mag * 2^(Precision - n), e |-> e - (Precision - n)]
    ELSE Cut(mag, n - Precision, e, sticky)

\* mag * 2^e (mag >= 0) rounded to Precision bits, ties to even; sticky says
\* that the exact value lies strictly above mag * 2^e (bits were cut off).
RoundMag(mag, e, sticky) ==
    IF mag = 0 THEN Zero ELSE RoundBits(mag, BitLen(mag), e, sticky)

WithSign(sgn, r) == [m |-> sgn * r.m, e |-> r.e]

Round(n, e, sticky) == WithSign(Sign(n), RoundMag(Abs(n), e, sticky))

\* int -> float
FromInt(n) == Round(n, 0, FALSE)

FNeg(a) == [m |-> -a.m, e |-> a.e]

FMul(a, b) ==
    IF a.m = 0 \/ b.m = 0 THEN Zero ELSE Round(a.m * b.m, a.e + b.e, FALSE)

\* a / b for b # 0: the quotient to Precision + 2 bits and a sticky bit.
Quotient(sgn, num, den, e) == Round(sgn * (num \div den), e, num % den # 0)

FDiv(a, b) ==
    IF a.m = 0 THEN Zero
    ELSE Quotient(Sign(a.m) * Sign(b.m), Abs(a.m) * 2^(Precision + 2), Abs(b.m),
                  a.e - b.e - (Precision + 2))

\* a + b with |a| >= |b| by exponent: exact sum of the aligned mantissas,
\* rounded; an addend below a quarter unit in the last place changes nothing.
AddOrdered(a, b) ==
    IF a.e - b.e >= Precision + 2 THEN a
    ELSE Round(a.m * 2^(a.e - b.e) + b.m, b.e, FALSE)

FAdd(a, b) ==
    IF a.m = 0 THEN b
    ELSE IF b.m = 0 THEN a
    ELSE IF a.e >= b.e THEN AddOrdered(a, b) ELSE AddOrdered(b, a)

FSub(a, b) == FAdd(a, FNeg(b))

FLess(a, b) == FSub(a, b).m < 0

\* The float nearest to the decimal number n / d (a JSON number literal).
Dec(n, d) == FDiv(FromInt(n), FromInt(d))

(***************************************************************************)
(* The input record and the cost formulas.                                 *)
(***************************************************************************)
YEAR_IN_HOURS == 8766

HOUR_IN_SECONDS == 3600

\* The fields of CalculatorInput, in declaration order.
InputFields ==
    <<"material_used_grams", "material_cost_per_kg", "energy_cost_per_kWh",
      "machine_preheat_time_seconds", "machine_preheat_kWh",
      "machine_operating_time_hours", "machine_operating_kWh",
      "machine_cost_purchase", "machine_lifespan_years",
      "machine_repair_percentage", "operator_job_hours",
      "operator_wage_hourly", "shipping_cost", "margin_percentage",
      "taxes_percentage">>

InputFieldSet == {InputFields[i] : i \in DOMAIN InputFields}

\* Mutant: the constraint only excludes zero.
LifespanNonZero(v) == v.m # 0

\* Field(gt=0) on machine_lifespan_years.
LifespanOk(v) == v.m > 0

\* Mutant: + for * in material_cost.
material_cost_sum(d) ==
    FAdd(FDiv(d.material_cost_per_kg, FromInt(1000)), d.material_used_grams)

material_cost(d) ==
    FMul(FDiv(d.material_cost_per_kg, FromInt(1000)), d.material_used_grams)

energy_cost(d) ==
    LET preheat_hours    == FDiv(d.machine_preheat_time_seconds, FromInt(HOUR_IN_SECONDS))
        preheat_energy   == FMul(preheat_hours, d.machine_preheat_kWh)
        operating_energy == FMul(d.machine_operating_time_hours, d.machine_operating_kWh)
    IN FMul(d.energy_cost_per_kWh, FAdd(preheat_energy, operating_energy))

wear_cost(d) ==
    LET total_lifespan_hours == FMul(FromInt(YEAR_IN_HOURS), d.machine_lifespan_years)
        total_machine_cost   == FMul(d.machine_cost_purchase,
                                     FAdd(FromInt(1), d.machine_repair_percentage))
    IN FDiv(FMul(total_machine_cost, d.machine_operating_time_hours), total_lifespan_hours)

labor_cost(d) == FMul(d.operator_job_hours, d.operator_wage_hourly)

total_process_cost(mc, ec, wc, lc) == FAdd(FAdd(FAdd(mc, ec), wc), lc)

\* Mutant: the margin is taken on shipping too.
margin_gain_on_shipping(tpc, d) ==
    FMul(FAdd(tpc, d.shipping_cost), d.margin_percentage)

margin_gain(tpc, d) == FMul(tpc, d.margin_percentage)

\* Mutant: shipping is left out of the tax base.
tax_addition_no_shipping(tpc, mg, d) == FMul(FAdd(tpc, mg), d.taxes_percentage)

tax_addition(tpc, mg, d) ==
    LET base_for_tax == FAdd(FAdd(tpc, mg), d.shipping_cost)
    IN FMul(base_for_tax, d.taxes_percentage)

\* Mutant: the margin is left out of the total.
total_cost_no_margin(tpc, mg, ta) == FAdd(tpc, ta)

total_cost(tpc, mg, ta) == FAdd(FAdd(tpc, mg), ta)

(***************************************************************************)
(* FDMCalculator.  dict is the instance __dict__ that cached_property      *)
(* fills: a function from the names of the properties read so far to their *)
(* values.  Get(dict, d, p) is the __dict__ after reading property p: a    *)
(* cached value is returned as it is, a missing one is computed from the   *)
(* properties its body reads (each read the same way) and stored.          *)
(* self.total_process_cost and the like inside a body are such reads.      *)
(***************************************************************************)
Properties ==
    {"material_cost", "energy_cost", "wear_cost", "labor_cost",
     "total_process_cost", "margin_gain", "tax_addition", "total_cost"}

\* cached_property.__get__: the __dict__ after reading property p, whose body
\* yields v when it has to run.
Cached(dict, p, v) == IF p \in DOMAIN dict THEN dict ELSE dict @@ (p :> v)

\* The four properties total_process_cost reads, in the order it reads them.
GetCosts(dict, d) ==
    Cached(Cached(Cached(Cached(dict,
        "material_cost", material_cost(d)),
        "energy_cost", energy_cost(d)),
        "wear_cost", wear_cost(d)),
        "labor_cost", labor_cost(d))

\* The bodies of the four derived properties, run on a __dict__ that holds
\* the properties they read.
RunTotalProcessCost(dict) ==
    total_process_cost(dict.material_cost, dict.energy_cost,
                       dict.wear_cost, dict.labor_cost)

RunMarginGain(dict, d) == margin_gain(dict.total_process_cost, d)

RunTaxAddition(dict, d) == tax_addition(dict.total_process_cost, dict.margin_gain, d)

RunTotalCost(dict) ==
    total_cost(dict.total_process_cost, dict.margin_gain, dict.tax_addition)

Store(dict, p, v) == dict @@ (p :> v)

StoreTotalProcessCost(dict) ==
    Store(dict, "total_process_cost", RunTotalProcessCost(dict))

GetTotalProcessCost(dict, d) ==
    IF "total_process_cost" \in DOMAIN dict THEN dict
    ELSE StoreTotalProcessCost(GetCosts(dict, d))

StoreMarginGain(dict, d) == Store(dict, "margin_gain", RunMarginGain(dict, d))

GetMarginGain(dict, d) ==
    IF "margin_gain" \in DOMAIN dict THEN dict
    ELSE StoreMarginGain(GetTotalProcessCost(dict, d), d)

StoreTaxAddition(dict, d) == Store(dict, "tax_addition", RunTaxAddition(dict, d))

GetTaxAddition(dict, d) ==
    IF "tax_addition" \in DOMAIN dict THEN dict
    ELSE StoreTaxAddition(GetMarginGain(GetTotalProcessCost(dict, d), d), d)

StoreTotalCost(dict) == Store(dict, "total_cost", RunTotalCost(dict))

GetTotalCost(dict, d) ==
    IF "total_cost" \in DOMAIN dict THEN dict
    ELSE StoreTotalCost(
             GetTaxAddition(GetMarginGain(GetTotalProcessCost(dict, d), d), d))

Get(dict, d, p) ==
    CASE p = "material_cost"      -> Cached(dict, p, material_cost(d))
      [] p = "energy_cost"        -> Cached(dict, p, energy_cost(d))
      [] p = "wear_cost"          -> Cached(dict, p, wear_cost(d))
      [] p = "labor_cost"         -> Cached(dict, p, labor_cost(d))
      [] p = "total_process_cost" -> GetTotalProcessCost(dict, d)
      [] p = "margin_gain"        -> GetMarginGain(dict, d)
      [] p = "tax_addition"       -> GetTaxAddition(dict, d)
      [] p = "total_cost"         -> GetTotalCost(dict, d)

\* The __dict__ after calculate() has read its seven properties in order.
CalculateDict(dict, d) ==
    GetTotalCost(GetTaxAddition(GetMarginGain(GetCosts(dict, d), d), d), d)

\* Mutant: shipping_cost is filled from the wrong input field.
Output_wrong_field(dict, d) ==
    [material_cost |-> dict.material_cost,
     energy_cost   |-> dict.energy_cost,
     wear_cost     |-> dict.wear_cost,
     labor_cost    |-> dict.labor_cost,
     shipping_cost |-> d.machine_lifespan_years,
     margin_gain   |-> dict.margin_gain,
     tax_addition  |-> dict.tax_addition,
     total_cost    |-> dict.total_cost]

\* The CalculatorOutput built from the properties and the input.
Output(dict, d) ==
    [material_cost |-> dict.material_cost,
     energy_cost   |-> dict.energy_cost,
     wear_cost     |-> dict.wear_cost,
     labor_cost    |-> dict.labor_cost,
     shipping_cost |-> d.shipping_cost,
     margin_gain   |-> dict.margin_gain,
     tax_addition  |-> dict.tax_addition,
     total_cost    |-> dict.total_cost]

\* The CalculatorOutput that calculate() returns.
calculate(dict, d) == Output(CalculateDict(dict, d), d)

\* Mutant: the record is not frozen.
SetAttr_unfrozen(d, f, v) == [raised |-> FALSE, data |-> [d EXCEPT ![f] = v]]

\* model_config = ConfigDict(frozen=True): assigning a field of the input
\* record raises and leaves the record as it was.
SetAttr(d, f, v) ==
    [raised |-> TRUE, data |-> d]

(***************************************************************************)
(* Input values of the model.                                              *)
(***************************************************************************)
ZeroInput(lifespan) ==
    [f \in InputFieldSet |->
        IF f = "machine_lifespan_years" THEN lifespan ELSE Zero]

\* The energy, machine and labour fields: all zero, the documentation's
\* example, and the example with a machine that only preheats.
ProcessValues ==
    {[energy_cost_per_kWh |-> Zero, machine_preheat_time_seconds |-> Zero,
      machine_preheat_kWh |-> Zero, machine_operating_time_hours |-> Zero,
      machine_operating_kWh |-> Zero, machine_cost_purchase |-> Zero,
      machine_repair_percentage |-> Zero, operator_job_hours |-> Zero,
      operator_wage_hourly |-> Zero],
     [energy_cost_per_kWh |-> Dec(3, 10), machine_preheat_time_seconds |-> FromInt(600),
      machine_preheat_kWh |-> Dec(5, 10), machine_operating_time_hours |-> FromInt(2),
      machine_operating_kWh |-> Dec(8, 10), machine_cost_purchase |-> FromInt(500),
      machine_repair_percentage |-> Dec(1, 10), operator_job_hours |-> FromInt(1),
      operator_wage_hourly |-> FromInt(15)],
     [energy_cost_per_kWh |-> Dec(3, 10), machine_preheat_time_seconds |-> FromInt(600),
      machine_preheat_kWh |-> Dec(5, 10), machine_operating_time_hours |-> Zero,
      machine_operating_kWh |-> Dec(8, 10), machine_cost_purchase |-> FromInt(500),
      machine_repair_percentage |-> Dec(1, 10), operator_job_hours |-> Zero,
      operator_wage_hourly |-> FromInt(15)]}

Lifespans == {FromInt(1), FromInt(5)}

\* material_used_grams, as whole grams
Grams == {0, 98, 100}

CostsPerKg == {Zero, FromInt(20), FromInt(42)}

ShippingCosts == {Zero, FromInt(5), Dec(79, 10)}

Margins == {Zero, Dec(2, 10)}

Taxes == {Zero, Dec(1, 10), Dec(25, 100)}

\* material_used_grams of the second input is k times that of the first
Factors == {1, 2, 3}

MakeInput(g, c, pr, life, s, mp, t) ==
    [material_used_grams          |-> FromInt(g),
     material_cost_per_kg         |-> c,
     energy_cost_per_kWh          |-> pr.energy_cost_per_kWh,
     machine_preheat_time_seconds |-> pr.machine_preheat_time_seconds,
     machine_preheat_kWh          |-> pr.machine_preheat_kWh,
     machine_operating_time_hours |-> pr.machine_operating_time_hours,
     machine_operating_kWh        |-> pr.machine_operating_kWh,
     machine_cost_purchase        |-> pr.machine_cost_purchase,
     machine_lifespan_years       |-> life,
     machine_repair_percentage    |-> pr.machine_repair_percentage,
     operator_job_hours           |-> pr.operator_job_hours,
     operator_wage_hourly         |-> pr.operator_wage_hourly,
     shipping_cost                |-> s,
     margin_percentage            |-> mp,
     taxes_percentage             |-> t]

\* The example of the documentation.
Example ==
    [material_used_grams          |-> FromInt(100),
     material_cost_per_kg         |-> FromInt(20),
     energy_cost_per_kWh          |-> Dec(3, 10),
     machine_preheat_time_seconds |-> FromInt(600),
     machine_preheat_kWh          |-> Dec(5, 10),
     machine_operating_time_hours |-> FromInt(2),
     machine_operating_kWh        |-> Dec(8, 10),
     machine_cost_purchase        |-> FromInt(500),
     machine_lifespan_years       |-> FromInt(5),
     machine_repair_percentage    |-> Dec(1, 10),
     operator_job_hours           |-> FromInt(1),
     operator_wage_hourly         |-> FromInt(15),
     shipping_cost                |-> FromInt(5),
     margin_percentage            |-> Dec(2, 10),
     taxes_percentage             |-> Dec(1, 10)]

(***************************************************************************)
(* JSON documents and files.  A file is absent, unreadable, not JSON, or a *)
(* JSON object: a function from keys to values, a value being a number or  *)
(* a string that is no number.                                             *)
(***************************************************************************)
Absent == [kind |-> "absent"]

Unreadable == [kind |-> "unreadable"]

Garbage == [kind |-> "garbage"]

Num(v) == [t |-> "num", v |-> v]

Str == [t |-> "str"]

\* BaseModel.model_dump_json(indent=...)
model_dump_json(rec, indent) ==
    [kind |-> "json", indent |-> indent, obj |-> [f \in DOMAIN rec |-> Num(rec[f])]]

\* Every field of the schema is there and is a number.
FitsSchema(content) ==
    /\ content.kind = "json"
    /\ InputFieldSet \subseteq DOMAIN content.obj
    /\ \A f \in InputFieldSet : content.obj[f].t = "num"

\* CalculatorInput(**values): the validated record, or ValidationError.
CalculatorInput(values) ==
    IF LifespanOk(values.machine_lifespan_years)
    THEN [ok |-> TRUE, data |-> [f \in InputFieldSet |-> values[f]]]
    ELSE [ok |-> FALSE, data |-> <<>>]

FieldValues(content) == [f \in InputFieldSet |-> content.obj[f].v]

\* CalculatorInput.model_validate_json(text)
model_validate_json(content) ==
    IF FitsSchema(content) THEN CalculatorInput(FieldValues(content))
    ELSE [ok |-> FALSE, data |-> <<>>]

(***************************************************************************)
(* State.                                                                  *)
(***************************************************************************)
VARIABLES
    data,      \* calculator -> its input record (self.data)
    given,     \* calculator -> the record its constructor was given
    factor,    \* data[2].material_used_grams = factor * data[1].material_used_grams
    cache,     \* calculator -> its __dict__ of cached properties
    returned,   \* calculator -> the records calculate() has returned, in order
    exc,       \* what the last operation on a calculator raised
    argv,      \* the parsed command line of the invocation
    fs,        \* path -> file
    locked,    \* the paths that cannot be opened for writing
    pc,        \* "ready": main() is about to run; "exited": the process has ended
    status,    \* exit status of the invocation
    stdout,    \* what the invocation printed to standard output
    stderr,    \* what it printed to standard error
    written,   \* the paths it wrote
    reads,     \* how many times it read the input file
    produced   \* the CalculatorOutput records calculate() returned in it

calcVars == <<data, given, factor, cache, returned, exc>>

cliVars == <<argv, fs, locked, pc, status, stdout, stderr, written, reads, produced>>

vars == <<data, given, factor, cache, returned, exc,
          argv, fs, locked, pc, status, stdout, stderr, written, reads, produced>>

Calculators == {1, 2}

Empty == [p \in {} |-> Zero]

NoArgs == [dump_template |-> FALSE, import_file |-> "", export_file |-> "",
           silent |-> FALSE]

\* No command line is involved.
CliIdle ==
    /\ argv = NoArgs
    /\ fs = <<>>
    /\ locked = {}
    /\ pc = "exited"
    /\ status = 0
    /\ stdout = <<>>
    /\ stderr = <<>>
    /\ written = {}
    /\ reads = 0
    /\ produced = <<>>

\* No calculator is held outside an invocation.
CalcIdle ==
    /\ data = <<>>
    /\ given = <<>>
    /\ factor = 1
    /\ cache = <<>>
    /\ returned = <<>>
    /\ exc = "none"

CalcInit(d1, d2, k) ==
    /\ data = <<d1, d2>>
    /\ given = <<d1, d2>>
    /\ factor = k
    /\ cache = <<Empty, Empty>>
    /\ returned = <<<<>>, <<>>>>
    /\ exc = "none"
    /\ CliIdle

\* Two records: equal, or differing in material_used_grams alone (by a whole
\* factor), or in shipping_cost alone.
InitPure ==
    \E g \in Grams, c \in CostsPerKg, pr \in ProcessValues, life \in Lifespans,
       s \in ShippingCosts, mp \in Margins, t \in Taxes :
        \/ \E k \in Factors :
              CalcInit(MakeInput(g, c, pr, life, s, mp, t),
                       MakeInput(k * g, c, pr, life, s, mp, t), k)
        \/ \E s2 \in ShippingCosts \ {s} :
              CalcInit(MakeInput(g, c, pr, life, s, mp, t),
                       MakeInput(g, c, pr, life, s2, mp, t), 1)

\* The records the property-access interleavings are explored on.
CalcInputs ==
    {ZeroInput(FromInt(1)), Example,
     [Example EXCEPT !.material_used_grams = FromInt(98),
                     !.material_cost_per_kg = FromInt(42),
                     !.taxes_percentage = Dec(25, 100)]}

InitCalc ==
    \E d1 \in CalcInputs : \E d2 \in {d1, Example} : CalcInit(d1, d2, 1)

(***************************************************************************)
(* Operations on a calculator.                                             *)
(***************************************************************************)
\* Reading one of the eight cached properties of calculator c.
Access(c, p) ==
    /\ cache' = [cache EXCEPT ![c] = Get(cache[c], data[c], p)]
    /\ exc' = "none"
    /\ UNCHANGED <<data, given, factor, returned>>
    /\ UNCHANGED cliVars

\* calculator.calculate()
Calculate(c) ==
    /\ Len(returned[c]) < MaxCalls
    /\ returned' = [returned EXCEPT ![c] = Append(@, calculate(cache[c], data[c]))]
    /\ cache' = [cache EXCEPT ![c] = CalculateDict(cache[c], data[c])]
    /\ exc' = "none"
    /\ UNCHANGED <<data, given, factor>>
    /\ UNCHANGED cliVars

\* calculator.data.<f> = v
Assign(c, f, v) ==
    /\ data' = [data EXCEPT ![c] = SetAttr(@, f, v).data]
    /\ exc' = IF SetAttr(data[c], f, v).raised THEN "ValidationError" ELSE "none"
    /\ UNCHANGED <<given, factor, cache, returned>>
    /\ UNCHANGED cliVars

NextPure == \E c \in Calculators : Calculate(c)

SpecPure == InitPure /\ [][NextPure]_vars

NextCalc ==
    \/ \E c \in Calculators, p \in Properties : Access(c, p)
    \/ \E c \in Calculators : Calculate(c)
    \/ \E c \in Calculators, f \in {"material_used_grams", "shipping_cost"} :
          Assign(c, f, FromInt(7))

SpecCalc == InitCalc /\ [][NextCalc]_vars
(***************************************************************************)
(* The command line.  An invocation is one run of main() on the parsed     *)
(* arguments; invocations follow one another on the same file system.      *)
(* For --import and --export, "" stands for an option that was not given:  *)
(* main() and run_calculator() only test the value for truth.              *)
(***************************************************************************)
TemplateFile == "fdmcalc_template.json"

Paths == {"in.json", "out.json", TemplateFile}

\* What an invocation did: its exit status, output, and the file it wrote.
Outcome(code, out, err, rd, prod, wr, text) ==
    [status |-> code, stdout |-> out, stderr |-> err, reads |-> rd,
     produced |-> prod, written |-> wr, text |-> text]

\* print(...) unless --silent
Say(silent, line) == IF silent THEN <<>> ELSE <<line>>

Line(what, text) == [what |-> what, text |-> text]

\* Mutant: the template's lifespan is zero like its other fields.
TemplateValues_all_zero == ZeroInput(Zero)

\* The values dump_template() passes to CalculatorInput.
TemplateValues == ZeroInput(FromInt(1))

\* dump_template(filename, silent), the record being built
WriteTemplate(filename, silent, isLocked, built) ==
    IF ~built.ok
    THEN Outcome(1, <<>>, <<"ValidationError">>, 0, <<>>, {}, Absent)
    ELSE IF isLocked
    THEN Outcome(0, <<>>, <<"Error while exporting template">>, 0, <<>>, {}, Absent)
    ELSE Outcome(0, Say(silent, Line("Exported template to", Absent)), <<>>, 0, <<>>,
                 {filename}, model_dump_json(built.data, 4))

dump_template(filename, silent, isLocked) ==
    WriteTemplate(filename, silent, isLocked, CalculatorInput(TemplateValues))

\* Mutant: the results are printed whether or not they are exported.
Deliver_and_print(results, results_json, export_file, silent, isLocked) ==
    IF export_file # "" /\ isLocked
    THEN Outcome(1, <<>>, <<"Error while writing">>, 1, <<results>>, {}, Absent)
    ELSE Outcome(0, Say(silent, Line("results", results_json)), <<>>, 1, <<results>>,
                 IF export_file # "" THEN {export_file} ELSE {}, results_json)

\* run_calculator() from results_json on: export or print
Deliver(results, results_json, export_file, silent, isLocked) ==
    IF export_file # ""
    THEN IF isLocked
         THEN Outcome(1, <<>>, <<"Error while writing">>, 1, <<results>>, {}, Absent)
         ELSE Outcome(0, Say(silent, Line("Results exported to", Absent)), <<>>, 1,
                      <<results>>, {export_file}, results_json)
    ELSE Outcome(0, Say(silent, Line("results", results_json)), <<>>, 1,
                 <<results>>, {}, Absent)

\* run_calculator() once the input record is validated
Compute(input_data, export_file, silent, isLocked) ==
    Deliver(calculate(Empty, input_data),
            model_dump_json(calculate(Empty, input_data),
                            IF export_file # "" THEN 4 ELSE 0),
            export_file, silent, isLocked)

\* run_calculator() once the file is known to exist
Load(content, parsed, export_file, silent, isLocked) ==
    IF content.kind = "unreadable"
    THEN Outcome(1, <<>>, <<"Unexpected error reading">>, 0, <<>>, {}, Absent)
    ELSE IF ~parsed.ok
    THEN Outcome(1, <<>>, <<"Error while parsing">>, 1, <<>>, {}, Absent)
    ELSE Compute(parsed.data, export_file, silent, isLocked)

\* Mutant: sys.exit() without a status when the file is missing.
run_calculator_exit0(content, export_file, silent, isLocked) ==
    IF content.kind = "absent"
    THEN Outcome(0, <<>>, <<"Error: File does not exist.">>, 0, <<>>, {}, Absent)
    ELSE Load(content, model_validate_json(content), export_file, silent, isLocked)

run_calculator(content, export_file, silent, isLocked) ==
    IF content.kind = "absent"
    THEN Outcome(1, <<>>, <<"Error: File does not exist.">>, 0, <<>>, {}, Absent)
    ELSE Load(content, model_validate_json(content), export_file, silent, isLocked)

print_help == Outcome(0, <<Line("usage", Absent)>>, <<>>, 0, <<>>, {}, Absent)

\* main(): the branch is chosen by the arguments.
main(args, files, lockedPaths) ==
    IF args.dump_template
    THEN dump_template(TemplateFile, args.silent, TemplateFile \in lockedPaths)
    ELSE IF args.import_file # ""
    THEN run_calculator(files[args.import_file], args.export_file, args.silent,
                        args.export_file \in lockedPaths)
    ELSE print_help

\* The file system after an invocation with outcome o.
AfterWrite(files, o) ==
    [p \in Paths |-> IF p \in o.written THEN o.text ELSE files[p]]

Finish(o) ==
    /\ pc' = "exited"
    /\ status' = o.status
    /\ stdout' = o.stdout
    /\ stderr' = o.stderr
    /\ reads' = o.reads
    /\ produced' = o.produced
    /\ written' = o.written
    /\ fs' = AfterWrite(fs, o)
    /\ UNCHANGED <<argv, locked>>
    /\ UNCHANGED calcVars

DumpTemplate ==
    /\ pc = "ready"
    /\ argv.dump_template
    /\ Finish(main(argv, fs, locked))

RunCalculator ==
    /\ pc = "ready"
    /\ ~argv.dump_template
    /\ argv.import_file # ""
    /\ Finish(main(argv, fs, locked))

PrintHelp ==
    /\ pc = "ready"
    /\ ~argv.dump_template
    /\ argv.import_file = ""
    /\ Finish(main(argv, fs, locked))

\* The command lines of the model.
CommandLines ==
    [dump_template : BOOLEAN, import_file : {"", "in.json", TemplateFile},
     export_file : {"", "out.json"}, silent : BOOLEAN]

\* The next invocation starts.
Invoke(args) ==
    /\ pc = "exited"
    /\ argv' = args
    /\ pc' = "ready"
    /\ status' = 0
    /\ stdout' = <<>>
    /\ stderr' = <<>>
    /\ reads' = 0
    /\ produced' = <<>>
    /\ written' = {}
    /\ UNCHANGED <<fs, locked>>
    /\ UNCHANGED calcVars

\* What in.json may hold to begin with.
FileRecords ==
    {ZeroInput(life) : life \in {FromInt(-1), Zero, FromInt(1), FromInt(5)}}
    \cup {[Example EXCEPT !.machine_lifespan_years = life] :
            life \in {FromInt(-1), Zero, FromInt(1), FromInt(5)}}

\* A document with a key missing, and one with a string for a number.
Without(obj, key) == [f \in DOMAIN obj \ {key} |-> obj[f]]

Malformed ==
    {[kind |-> "json", indent |-> 4,
      obj |-> Without(model_dump_json(Example, 4).obj, "shipping_cost")],
     [kind |-> "json", indent |-> 4,
      obj |-> [model_dump_json(Example, 4).obj EXCEPT !["taxes_percentage"] = Str]]}

InputFiles ==
    {Absent, Unreadable, Garbage} \cup Malformed
    \cup {model_dump_json(d, 4) : d \in FileRecords}

Init ==
    /\ CalcIdle
    /\ \E args \in CommandLines, f \in InputFiles,
          l \in {{}, {"out.json", TemplateFile}} :
          /\ argv = args
          /\ fs = [p \in Paths |-> IF p = "in.json" THEN f ELSE Absent]
          /\ locked = l
    /\ pc = "ready"
    /\ status = 0
    /\ stdout = <<>>
    /\ stderr = <<>>
    /\ written = {}
    /\ reads = 0
    /\ produced = <<>>

Next ==
    \/ DumpTemplate
    \/ RunCalculator
    \/ PrintHelp
    \/ \E args \in CommandLines : Invoke(args)

Spec == Init /\ [][Next]_vars
(***************************************************************************)
(* Exact arithmetic on the values of floats, to state what rounding does.  *)
(* A dyadic number is [m, e], meaning m * 2^e, with no bound on m.         *)
(***************************************************************************)
DSub(a, b) ==
    IF a.e >= b.e
    THEN [m |-> a.m * 2^(a.e - b.e) - b.m, e |-> b.e]
    ELSE [m |-> a.m - b.m * 2^(b.e - a.e), e |-> a.e]

DMul(a, b) == [m |-> a.m * b.m, e |-> a.e + b.e]

\* |x - y| <= n * 2^u, for u >= x.e
DWithin(x, y, n, u) ==
    IF y.e >= x.e
    THEN Abs(x.m - y.m * 2^(y.e - x.e)) <= n * 2^(u - x.e)
    ELSE /\ x.m - n * 2^(u - x.e) <= y.m \div 2^(x.e - y.e)
         /\ -((-y.m) \div 2^(x.e - y.e)) <= x.m + n * 2^(u - x.e)

\* The one of two floats with the larger exponent (zero has none).
Larger(a, b) ==
    IF a.m = 0 THEN b ELSE IF b.m = 0 THEN a ELSE IF a.e >= b.e THEN a ELSE b

TopExp(a, b) == Larger(a, b).e

\* Floats a and b are within n units in the last place of the larger one.
WithinUlps(a, b, n) ==
    IF a.m = 0 /\ b.m = 0 THEN TRUE
    ELSE DWithin(DSub(a, b), Zero, n, TopExp(a, b))

IsPowerOfTwo(k) == \E i \in 0..8 : k = 2^i

(***************************************************************************)
(* The claims on the cost formulas, checked under SpecPure: two records    *)
(* that are equal or differ in one field, and calculate() on each.         *)
(***************************************************************************)
Done(c) == Len(returned[c]) > 0

Out(c) == returned[c][1]

\* The sum of the four cost fields of an output record, in the order of
\* total_process_cost.
ProcessCostOf(o) ==
    FAdd(FAdd(FAdd(o.material_cost, o.energy_cost), o.wear_cost), o.labor_cost)

DifferOnlyIn(field) ==
    /\ data[1][field] # data[2][field]
    /\ \A f \in InputFieldSet \ {field} : data[1][f] = data[2][f]

\* C3: margin_gain = total_process_cost * margin_percentage, tax_addition =
\* (total_process_cost + margin_gain + shipping_cost) * taxes_percentage, and
\* margin_gain is the same for two inputs that differ only in shipping_cost.
C3_MarginAndTaxBase ==
    /\ \A c \in Calculators : Done(c) =>
          /\ Out(c).margin_gain =
                FMul(ProcessCostOf(Out(c)), data[c].margin_percentage)
          /\ Out(c).tax_addition =
                FMul(FAdd(FAdd(ProcessCostOf(Out(c)), Out(c).margin_gain),
                          data[c].shipping_cost),
                     data[c].taxes_percentage)
    /\ (Done(1) /\ Done(2) /\ DifferOnlyIn("shipping_cost")) =>
          Out(1).margin_gain = Out(2).margin_gain

C3_Witness ==
    /\ Done(1) /\ Done(2)
    /\ DifferOnlyIn("shipping_cost")
    /\ Out(1).margin_gain.m > 0
    /\ Out(1).tax_addition.m > 0
    /\ Out(1).tax_addition # Out(2).tax_addition

\* C4: total_cost of the returned record is total_process_cost + margin_gain
\* + tax_addition of the same record.
C4_TotalIsSum ==
    \A c \in Calculators : Done(c) =>
        Out(c).total_cost =
            FAdd(FAdd(ProcessCostOf(Out(c)), Out(c).margin_gain), Out(c).tax_addition)

C4_Witness ==
    /\ Done(1)
    /\ Out(1).material_cost.m > 0 /\ Out(1).energy_cost.m > 0
    /\ Out(1).wear_cost.m > 0 /\ Out(1).labor_cost.m > 0
    /\ Out(1).margin_gain.m > 0 /\ Out(1).tax_addition.m > 0
    /\ FLess(FAdd(ProcessCostOf(Out(1)), Out(1).margin_gain), Out(1).total_cost)

AllZeroButLifespan(d) ==
    /\ \A f \in InputFieldSet \ {"machine_lifespan_years"} : d[f] = Zero
    /\ d.machine_lifespan_years.m > 0

OutputFields ==
    {"material_cost", "energy_cost", "wear_cost", "labor_cost", "shipping_cost",
     "margin_gain", "tax_addition", "total_cost"}

\* C5: an input that is zero in every field but a positive lifespan yields
\* an output whose eight fields are zero.
C5_ZeroInZeroOut ==
    \A c \in Calculators : (Done(c) /\ AllZeroButLifespan(data[c])) =>
        /\ DOMAIN Out(c) = OutputFields
        /\ \A f \in OutputFields : Out(c)[f] = Zero

C5_Witness ==
    /\ Done(1) /\ Done(2)
    /\ AllZeroButLifespan(data[1])
    /\ data[1].machine_lifespan_years = FromInt(5)
    /\ Out(1).total_cost = Zero

ScaledGrams ==
    /\ Done(1) /\ Done(2)
    /\ \A f \in InputFieldSet \ {"material_used_grams"} : data[1][f] = data[2][f]
    /\ data[2].material_used_grams
          = FMul(FromInt(factor), data[1].material_used_grams)

OtherCostsEqual ==
    \A f \in {"energy_cost", "wear_cost", "labor_cost", "shipping_cost"} :
        Out(1)[f] = Out(2)[f]

\* C8 as stated: material_cost of the second output is exactly k times that
\* of the first, and the other four cost fields are equal.
C8_ExactlyLinear ==
    ScaledGrams =>
        /\ Out(2).material_cost = FMul(FromInt(factor), Out(1).material_cost)
        /\ OtherCostsEqual

\* C8 amended: material_cost of the second output is k times that of the first
\* to within four units in the last place, exactly so when k is a power of
\* two, and the other four cost fields are equal.
C8_LinearUpToRounding ==
    ScaledGrams =>
        /\ WithinUlps(Out(2).material_cost,
                      FMul(FromInt(factor), Out(1).material_cost), 4)
        /\ IsPowerOfTwo(factor) =>
              Out(2).material_cost = FMul(FromInt(factor), Out(1).material_cost)
        /\ OtherCostsEqual

C8_Witness ==
    /\ ScaledGrams
    /\ factor = 3
    /\ Out(1).material_cost.m > 0
    /\ Out(2).material_cost # FMul(FromInt(factor), Out(1).material_cost)
    /\ Out(1).energy_cost.m > 0

ShippingPair == Done(1) /\ Done(2) /\ DifferOnlyIn("shipping_cost")

TotalChange == DSub(Out(2).total_cost, Out(1).total_cost)

\* (change in shipping_cost) * taxes_percentage, exactly
TaxOnShippingChange ==
    DMul(DSub(data[2].shipping_cost, data[1].shipping_cost), data[1].taxes_percentage)

PassesShipping == \A c \in Calculators : Done(c) => Out(c).shipping_cost = data[c].shipping_cost

\* C10 as stated: shipping_cost is copied to the output; with taxes_percentage
\* = 0 the totals of a shipping pair are equal, and in general total_cost
\* changes by exactly (change in shipping_cost) * taxes_percentage.
C10_ExactShippingEffect ==
    /\ PassesShipping
    /\ ShippingPair =>
          /\ data[1].taxes_percentage = Zero => Out(1).total_cost = Out(2).total_cost
          /\ DWithin(TotalChange, TaxOnShippingChange, 0, TotalChange.e)

\* The largest exponent among the totals and tax additions of the pair.
PairScale ==
    Larger(Larger(Out(1).total_cost, Out(2).total_cost),
           Larger(Out(1).tax_addition, Out(2).tax_addition)).e

\* C10 amended: the same, the change of total_cost being (change in
\* shipping_cost) * taxes_percentage to within six units in the last place
\* of the largest of the two totals and tax additions.
C10_ShippingEffectUpToRounding ==
    /\ PassesShipping
    /\ ShippingPair =>
          /\ data[1].taxes_percentage = Zero => Out(1).total_cost = Out(2).total_cost
          /\ DWithin(TotalChange, TaxOnShippingChange, 6, PairScale)

C10_Witness ==
    /\ ShippingPair
    /\ data[1].taxes_percentage.m > 0
    /\ Out(1).material_cost.m > 0
    /\ ~DWithin(TotalChange, TaxOnShippingChange, 0, TotalChange.e)

C10_WitnessNoTax ==
    /\ ShippingPair
    /\ data[1].taxes_percentage = Zero
    /\ Out(1).total_cost.m > 0

(***************************************************************************)
(* The claim on memoisation, checked under SpecCalc: the properties of two *)
(* calculators read in any order, calculate() called any number of times.  *)
(***************************************************************************)
\* The formulas on a record, each evaluated once, later ones from earlier ones.
Sum4(mc, ec, wc, lc) == FAdd(FAdd(FAdd(mc, ec), wc), lc)

WithTotal(r) ==
    r @@ ("total_cost" :>
              FAdd(FAdd(r.total_process_cost, r.margin_gain), r.tax_addition))

WithTax(r, d) ==
    WithTotal(r @@ ("tax_addition" :>
        FMul(FAdd(FAdd(r.total_process_cost, r.margin_gain), d.shipping_cost),
             d.taxes_percentage)))

WithMargin(r, d) ==
    WithTax(r @@ ("margin_gain" :> FMul(r.total_process_cost, d.margin_percentage)), d)

WithProcessCost(r, d) ==
    WithMargin(r @@ ("total_process_cost" :>
        Sum4(r.material_cost, r.energy_cost, r.wear_cost, r.labor_cost)), d)

InDependencyOrder(d) ==
    WithProcessCost([material_cost |-> material_cost(d),
                     energy_cost   |-> energy_cost(d),
                     wear_cost     |-> wear_cost(d),
                     labor_cost    |-> labor_cost(d)], d)

RecordOf(r, d) ==
    [f \in OutputFields |-> IF f = "shipping_cost" THEN d.shipping_cost ELSE r[f]]

\* C9: whatever the order of the reads and the number of calls, every cached
\* property has the value of the formulas evaluated in dependency order on
\* the record the calculator was built from, every call of calculate()
\* returns the record of those values, calculators built from equal records
\* return equal records, and the input record is never modified.
C9_PureAndDeterministic ==
    /\ \A c \in Calculators :
          /\ \A p \in DOMAIN cache[c] : cache[c][p] = InDependencyOrder(given[c])[p]
          /\ \A i \in DOMAIN returned[c] :
                returned[c][i] = RecordOf(InDependencyOrder(given[c]), given[c])
          /\ data[c] = given[c]
    /\ given[1] = given[2] =>
          \A i \in DOMAIN returned[1], j \in DOMAIN returned[2] :
              returned[1][i] = returned[2][j]

C9_Witness ==
    /\ given[1] = given[2]
    /\ given[1].taxes_percentage.m > 0
    /\ Len(returned[1]) = MaxCalls
    /\ Len(returned[2]) = 1
    /\ exc = "ValidationError"

\* A partly filled __dict__: the read order is not the dependency order.
C9_WitnessOrder ==
    /\ DOMAIN cache[1] = {"labor_cost", "wear_cost"}
    /\ "tax_addition" \in DOMAIN cache[2]
    /\ "total_cost" \notin DOMAIN cache[2]

(***************************************************************************)
(* The claims on the command line, checked under Spec.                     *)
(***************************************************************************)
\* The invocation was a compute-mode one and has ended.
ComputeEnded == pc = "exited" /\ ~argv.dump_template /\ argv.import_file # ""

\* The file the invocation read (no invocation of the model writes the file
\* it reads).
InputFile == fs[argv.import_file]

NonPositiveLifespan(content) ==
    /\ FitsSchema(content)
    /\ content.obj.machine_lifespan_years.v.m <= 0

OnStdout == \E i \in DOMAIN stdout : stdout[i].what = "results"

\* C1: a compute run on an input whose machine_lifespan_years is zero or
\* negative constructs no input record, runs calculate() on nothing and
\* produces no result, whatever the other fields are.
C1_LifespanRejected ==
    /\ \A d \in FileRecords :
          d.machine_lifespan_years.m <= 0 => ~CalculatorInput(d).ok
    /\ (ComputeEnded /\ NonPositiveLifespan(InputFile)) =>
          /\ produced = <<>>
          /\ ~OnStdout
          /\ written = {}
          /\ status # 0

C1_Witness ==
    /\ ComputeEnded
    /\ NonPositiveLifespan(InputFile)
    /\ InputFile.obj.machine_lifespan_years.v.m < 0
    /\ InputFile.obj.material_used_grams.v.m > 0
    /\ argv.export_file # ""
    /\ status = 1

\* The three error kinds of compute mode.
InputNotFound == InputFile.kind = "absent"

MalformedInput == InputFile.kind \in {"garbage", "json"} /\ ~FitsSchema(InputFile)

InvalidDomainValue == NonPositiveLifespan(InputFile)

\* C2: in compute mode each of the three error kinds ends the invocation
\* with a non-zero status, the input read at most once, nothing on standard
\* output and no file written.
C2_ErrorsExitNonZero ==
    (ComputeEnded /\ (InputNotFound \/ MalformedInput \/ InvalidDomainValue)) =>
        /\ status # 0
        /\ reads <= 1
        /\ stdout = <<>>
        /\ written = {}
        /\ Len(stderr) = 1

C2_Witness ==
    /\ ComputeEnded
    /\ InputNotFound
    /\ argv.export_file # "" /\ argv.export_file \notin locked
    /\ ~argv.silent
    /\ status = 1

C2_WitnessMalformed == ComputeEnded /\ MalformedInput /\ InputFile.kind = "json" /\ reads = 1

IsTemplate(content) ==
    /\ FitsSchema(content)
    /\ \A f \in InputFieldSet \ {"machine_lifespan_years"} : content.obj[f].v = Zero
    /\ content.obj.machine_lifespan_years.v.m > 0

\* C6: template mode writes (when the file can be written) an input object
\* that is zero in every field but machine_lifespan_years, which is
\* positive; the object passes input validation, and a compute run on the
\* file produces a result and no parsing error.
C6_TemplateIsValidInput ==
    /\ (pc = "exited" /\ argv.dump_template /\ TemplateFile \notin locked) =>
          TemplateFile \in written /\ status = 0
    /\ fs[TemplateFile].kind # "absent" =>
          IsTemplate(fs[TemplateFile]) /\ model_validate_json(fs[TemplateFile]).ok
    /\ (ComputeEnded /\ argv.import_file = TemplateFile /\ InputFile.kind # "absent") =>
          /\ Len(produced) = 1
          /\ stderr # <<"Error while parsing">>
          /\ argv.export_file \notin locked => status = 0

C6_Witness ==
    /\ ComputeEnded
    /\ argv.import_file = TemplateFile
    /\ IsTemplate(InputFile)
    /\ Len(produced) = 1
    /\ OnStdout
    /\ status = 0

\* The invocation was a compute-mode one on an input that passes validation.
ValidRunEnded == ComputeEnded /\ model_validate_json(InputFile).ok

ToExportFile ==
    /\ argv.export_file \in written
    /\ fs[argv.export_file] = model_dump_json(produced[1], 4)

\* C7 as stated: for every combination of the export-path and silent options
\* the breakdown goes to exactly one destination: the export path when one
\* is given, standard output otherwise.  (Stated here for the invocations
\* in which every file can be written.)
C7_ExactlyOneDestination ==
    (ValidRunEnded /\ locked = {}) =>
        /\ OnStdout # ToExportFile
        /\ argv.export_file # "" => ToExportFile
        /\ argv.export_file = "" => OnStdout

\* C7 amended: the breakdown never goes to both destinations.  It goes to
\* the export path when one is given and can be written, to standard output
\* when none is given and --silent is not set, and to neither when none is
\* given and --silent is set or when the export path cannot be written (the
\* status is then 1).
C7_AtMostOneDestination ==
    ValidRunEnded =>
        /\ ~(OnStdout /\ ToExportFile)
        /\ ToExportFile <=> (argv.export_file # "" /\ argv.export_file \notin locked)
        /\ OnStdout <=> (argv.export_file = "" /\ ~argv.silent)
        /\ status = IF argv.export_file \in locked THEN 1 ELSE 0
        /\ Len(produced) = 1

C7_Witness ==
    /\ ValidRunEnded
    /\ argv.silent
    /\ argv.export_file = ""
    /\ ~OnStdout
    /\ written = {}
    /\ status = 0
    /\ Len(produced) = 1

C7_WitnessExport == ValidRunEnded /\ ToExportFile /\ ~argv.silent /\ ~OnStdout
====
